---- MODULE Spec2Model ----
(***************************************************************************)
(* Verification development for the llbbl/untestable-code examples.        *)
(* Each example is an independent component; the module holds one state    *)
(* machine per component (SpecState, SpecLogin, ...) over disjoint         *)
(* variables, all starting from the common Init (every object freshly      *)
(* constructed, no call made yet).                                         *)
(***************************************************************************)
EXTENDS Integers, Sequences, FiniteSets, TLC

(***************************************************************************)
(* Bounds                                                                  *)
(***************************************************************************)
MaxOps == 3
MaxClock == 2

(***************************************************************************)
(* Variables                                                               *)
(***************************************************************************)
\* state management example
VARIABLES
    state,        \* StateManager.state (a UserState)
    errorState,   \* StateManager.errorState (an ErrorState)
    procs,        \* one record per async call chain (service operation in flight)
    microtasks,   \* the JavaScript microtask queue: call chains ready to resume
    clock,        \* what new Date() returns
    serialState,  \* ghost: the update functions applied one after another, in write order
    serialError   \* ghost: same for the error state

stateVars == <<state, errorState, procs, microtasks, clock, serialState, serialError>>

\* configuration example: Config
VARIABLES
    heap,        \* the section objects ({url, options}, {baseUrl, ...}) by reference
    configs,     \* the Config objects created so far: values maps key -> reference
    lastThrown,  \* what the last constructor call threw, if it threw
    lastOp,      \* the last operation on the configuration objects
    candidate    \* the values the last constructor call was given

configVars == <<heap, configs, lastThrown, lastOp, candidate>>

\* configuration example: APIClient
VARIABLES
    apiConfig,   \* this.config.get('api') of the APIClient
    apiPc,       \* where the request call is: idle, fetching, backoff, done
    retries,     \* the local variable retries of request
    attempts,    \* the fetch calls made by the current request, with their outcomes
    apiResult    \* how the request call settled

apiVars == <<apiConfig, apiPc, retries, attempts, apiResult>>

\* configuration example: Cache
VARIABLES
    cacheConfig, \* this.config.get('cache') of the Cache
    store,       \* Cache.store: key -> { value, expiry }, or no entry
    now,         \* Date.now(), in ms
    lastSet,     \* ghost: for each key the value and the time of the last set
    got          \* the last call, and what it returned if it was a get

cacheVars == <<cacheConfig, store, now, lastSet, got>>

\* complex logic example: OrderProcessor.processOrder
VARIABLES
    order,           \* the argument of the processOrder call
    orderPc,         \* the await the call is suspended on, or idle / done
    customer,        \* what getCustomer resolved with
    paymentResult,   \* what processPayment resolved with
    inventoryResult, \* what updateInventory resolved with
    serviceCalls,    \* the calls made on the injected services, in order
    failedCall,      \* the service call that rejected, or "none"
    orderResult      \* how the call settled

orderVars == <<order, orderPc, customer, paymentResult, inventoryResult,
               serviceCalls, failedCall, orderResult>>

\* async example: DataFetcher
VARIABLES
    activeOperations,  \* DataFetcher.activeOperations (a Set of user ids)
    fetcherCache,      \* the injected Cache: user id -> data, or no entry
    operationResults,  \* DataFetcher.operationResults (a Map user id -> data)
    fetches            \* the fetchData calls: user id, position, settlement

fetchVars == <<activeOperations, fetcherCache, operationResults, fetches>>

\* non-determinism example: TimeProvider, RandomProvider, OrderProcessor
VARIABLES
    hour,         \* timeProvider.now().getHours()
    seed,         \* RandomProvider.seed
    batch,        \* the processOrders / processQueue call: its arguments and locals
    inFlight,     \* the positions in the input list of the processOrder calls in flight
    completed,    \* the positions of the current chunk whose call has resolved, in that order
    started,      \* ghost: every position whose processOrder call was started
    batchResult   \* how the processOrders / processQueue call settled

batchVars == <<hour, seed, batch, inFlight, completed, started, batchResult>>

\* dependency example: UserService.getUser, OrderService.getOrder
VARIABLES
    cacheClient,  \* the injected cache client: key -> stored string, or no entry
    getUserCall,  \* the getUser call: its argument, position, locals, settlement
    depCalls,     \* the calls the getUser call made on its dependencies, in order
    getOrderCall  \* the getOrder call: its argument, position, locals, settlement

depVars == <<cacheClient, getUserCall, depCalls, getOrderCall>>

\* non-determinism example: two RandomProvider objects side by side
VARIABLES
    providers    \* per provider: this.seed, the seed it was last given, the values returned since

randVars == <<providers>>

\* complex logic example: the original OrderProcessor.processOrder, run on
\* the same order against the same service responses
VARIABLES
    originalCall  \* the call of the original: position, calls made, settlement

originalVars == <<originalCall>>

vars == <<stateVars, configVars, apiVars, cacheVars, orderVars, fetchVars, batchVars, depVars, randVars, originalVars>>

\* the variables of the other components, which a component's steps leave alone
notStateVars == <<configVars, apiVars, cacheVars, orderVars, fetchVars, batchVars, depVars, randVars, originalVars>>
notConfigVars == <<stateVars, apiVars, cacheVars, orderVars, fetchVars, batchVars, depVars, randVars, originalVars>>
notApiVars == <<stateVars, configVars, cacheVars, orderVars, fetchVars, batchVars, depVars, randVars, originalVars>>
notCacheVars == <<stateVars, configVars, apiVars, orderVars, fetchVars, batchVars, depVars, randVars, originalVars>>
notOrderVars == <<stateVars, configVars, apiVars, cacheVars, fetchVars, batchVars, depVars, randVars, originalVars>>
notFetchVars == <<stateVars, configVars, apiVars, cacheVars, orderVars, batchVars, depVars, randVars, originalVars>>
notBatchVars == <<stateVars, configVars, apiVars, cacheVars, orderVars, fetchVars, depVars, randVars, originalVars>>
notDepVars == <<stateVars, configVars, apiVars, cacheVars, orderVars, fetchVars, batchVars, randVars, originalVars>>
notRandVars == <<stateVars, configVars, apiVars, cacheVars, orderVars, fetchVars, batchVars, depVars, originalVars>>
notOriginalVars == <<stateVars, configVars, apiVars, cacheVars, orderVars, fetchVars, batchVars, depVars, randVars>>

(***************************************************************************)
(* State management example: UserState, ErrorState, StateManager,          *)
(* UserService.login, ActivityService.recordActivity                       *)
(***************************************************************************)
Null == "null"
NullTime == -1
EmptyPrefs == "{}"

Users == {"alice", "bob"}
Passwords == {"pw1", "pw2"}
\* the db's users collection: the password stored for each username
DbPassword == [u \in Users |-> IF u = "alice" THEN "pw1" ELSE "pw2"]
\* the db's preferences collection: the document stored for each user id, or null
DbPreferences == [u \in Users |-> IF u = "alice" THEN "dark" ELSE Null]
\* the errors a db call can reject with
DbErrors == {"ECONNRESET", "ETIMEDOUT"}

Procs == {1, 2}

\* class UserState
UserState(user, preferences, lastActivity) ==
    [user |-> user, preferences |-> preferences, lastActivity |-> lastActivity]
NewUserState == UserState(Null, EmptyPrefs, NullTime)
withUser(s, user) == UserState(user, s.preferences, s.lastActivity)
withPreferences(s, preferences) == UserState(s.user, preferences, s.lastActivity)
withLastActivity(s, lastActivity) == UserState(s.user, s.preferences, lastActivity)

\* class ErrorState
ErrorState(count) == [count |-> count]
increment(e) == ErrorState(e.count + 1)

OrEmptyMutant(preferences) == preferences

\* `preferences || {}`
OrEmpty(preferences) == IF preferences = Null THEN EmptyPrefs ELSE preferences

IdleProc == [op |-> "none", pc |-> "idle", username |-> Null, password |-> Null,
             ret |-> Null, arg |-> NewUserState, pendingState |-> NewUserState,
             pendingError |-> ErrorState(0), preState |-> NewUserState,
             preError |-> ErrorState(0), result |-> "none", threw |-> FALSE,
             error |-> Null, calls |-> 0]

InitStateManager ==
    /\ state = NewUserState
    /\ errorState = ErrorState(0)
    /\ procs = [p \in Procs |-> IdleProc]
    /\ microtasks = <<>>
    /\ clock = 0
    /\ serialState = NewUserState
    /\ serialError = ErrorState(0)

Settled(p) == procs[p].pc \in {"idle", "done"}

\* the number of service operations called so far
RECURSIVE CallsOf(_)
CallsOf(P) ==
    IF P = {} THEN 0
    ELSE LET p == CHOOSE q \in P : TRUE IN procs[p].calls + CallsOf(P \ {p})

\* the event loop runs the microtask at the head of the queue: call chain p resumes
Resumes(p) == microtasks # <<>> /\ Head(microtasks) = p

\* A call chain suspended on `await this.db....`
AwaitingDb(p) == procs[p].pc \in {"login_findUser", "login_findPrefs", "rec_insert"}

\* db.findOne('users', { username, password })
FindUser(username, password) ==
    IF DbPassword[username] = password THEN username ELSE Null

\* StateManager.updateErrorState(state => state.increment()): the part up to
\* the await. The argument this.errorState is read and the update function
\* applied now; the assignment runs in a later microtask.
StartUpdateErrorState(p, nextPc) ==
    /\ procs' = [procs EXCEPT ![p].pendingError = increment(errorState),
                              ![p].pc = nextPc]
    /\ microtasks' = Append(Tail(microtasks), p)
    /\ UNCHANGED <<state, errorState, clock, serialState, serialError, notStateVars>>

\* StateManager.updateErrorState: the assignment after the await
FinishUpdateErrorState(p, nextPc) ==
    /\ errorState' = procs[p].pendingError
    /\ serialError' = increment(serialError)
    /\ procs' = [procs EXCEPT ![p].pc = nextPc]
    /\ microtasks' = Append(Tail(microtasks), p)
    /\ UNCHANGED <<state, clock, serialState, notStateVars>>

\* StateManager.updateState: the assignment after the await
FinishUpdateState(p, nextPc, serialResult) ==
    /\ state' = procs[p].pendingState
    /\ serialState' = serialResult
    /\ procs' = [procs EXCEPT ![p].pc = nextPc]
    /\ microtasks' = Append(Tail(microtasks), p)
    /\ UNCHANGED <<errorState, clock, serialError, notStateVars>>

\* a call chain resumes and runs to its end
Finish(p, result) ==
    /\ procs' = [procs EXCEPT ![p].pc = "done", ![p].result = result]
    /\ microtasks' = Tail(microtasks)
    /\ UNCHANGED <<state, errorState, clock, serialState, serialError, notStateVars>>

\* a call chain resumes and immediately awaits again (a rejection travelling
\* up through one async function)
Hop(p, nextPc) ==
    /\ procs' = [procs EXCEPT ![p].pc = nextPc]
    /\ microtasks' = Append(Tail(microtasks), p)
    /\ UNCHANGED <<state, errorState, clock, serialState, serialError, notStateVars>>

\* UserService.login(username, password): runs up to the first await
LoginCall(p, username, password) ==
    /\ Settled(p)
    /\ CallsOf(Procs) < MaxOps
    /\ procs' = [procs EXCEPT ![p] =
          [IdleProc EXCEPT !.op = "login", !.pc = "login_findUser",
                           !.username = username, !.password = password,
                           !.preState = state, !.preError = errorState,
                           !.calls = procs[p].calls + 1]]
    /\ UNCHANGED <<state, errorState, microtasks, clock, serialState, serialError, notStateVars>>

\* ActivityService.recordActivity(activity): `await this.stateManager.getState()`
\* reads this.state at once and resumes in a later microtask
RecordActivityCall(p) ==
    /\ Settled(p)
    /\ CallsOf(Procs) < MaxOps
    /\ procs' = [procs EXCEPT ![p] =
          [IdleProc EXCEPT !.op = "recordActivity", !.pc = "rec_gotState",
                           !.arg = state,
                           !.preState = state, !.preError = errorState,
                           !.calls = procs[p].calls + 1]]
    /\ microtasks' = Append(microtasks, p)
    /\ UNCHANGED <<state, errorState, clock, serialState, serialError, notStateVars>>

\* the injected db settles the promise a call chain awaits: it resolves with
\* what the collection holds, or rejects
DbSettle(p, outcome) ==
    /\ AwaitingDb(p)
    /\ procs' = [procs EXCEPT
          ![p].threw = (outcome # "ok"),
          ![p].error = IF outcome # "ok" THEN outcome ELSE Null,
          ![p].ret = IF outcome # "ok" THEN Null
                     ELSE IF procs[p].pc = "login_findUser"
                          THEN FindUser(procs[p].username, procs[p].password)
                     ELSE IF procs[p].pc = "login_findPrefs"
                          THEN DbPreferences[procs[p].ret]
                     ELSE Null,
          ![p].pc = IF procs[p].pc = "login_findUser" THEN "login_gotUser"
                    ELSE IF procs[p].pc = "login_findPrefs" THEN "login_gotPrefs"
                    ELSE "rec_inserted"]
    /\ microtasks' = Append(microtasks, p)
    /\ UNCHANGED <<state, errorState, clock, serialState, serialError, notStateVars>>

\* login resumes after `await this.db.findOne('users', ...)`
LoginGotUser(p) ==
    /\ Resumes(p)
    /\ procs[p].pc = "login_gotUser"
    /\ IF procs[p].threw
       THEN StartUpdateErrorState(p, "login_catchUpdate")
       ELSE IF procs[p].ret # Null
       THEN \* updateState(async (state) => ...): updateFn(this.state) is called
            \* with the current state and suspends on the preferences lookup
            /\ procs' = [procs EXCEPT ![p].arg = state, ![p].pc = "login_findPrefs"]
            /\ microtasks' = Tail(microtasks)
            /\ UNCHANGED <<state, errorState, clock, serialState, serialError, notStateVars>>
       ELSE StartUpdateErrorState(p, "login_failUpdate")

\* the update function of login resumes after the preferences lookup
LoginGotPrefs(p) ==
    /\ Resumes(p)
    /\ procs[p].pc = "login_gotPrefs"
    /\ IF procs[p].threw
       THEN Hop(p, "login_updateStateRejects")
       ELSE /\ procs' = [procs EXCEPT
                  ![p].pendingState =
                      withLastActivity(
                          withPreferences(withUser(procs[p].arg, procs[p].username),
                                          OrEmpty(procs[p].ret)),
                          clock),
                  ![p].pc = "login_assign"]
            /\ microtasks' = Append(Tail(microtasks), p)
            /\ UNCHANGED <<state, errorState, clock, serialState, serialError, notStateVars>>

\* the rejection of the update function reaches updateState, then login
LoginUpdateStateRejects(p) ==
    /\ Resumes(p)
    /\ procs[p].pc = "login_updateStateRejects"
    /\ Hop(p, "login_catch")

LoginCatch(p) ==
    /\ Resumes(p)
    /\ procs[p].pc = "login_catch"
    /\ StartUpdateErrorState(p, "login_catchUpdate")

LoginAssign(p) ==
    /\ Resumes(p)
    /\ procs[p].pc = "login_assign"
    \* applied atomically, the update function of login replaces all three fields
    /\ FinishUpdateState(p, "login_returnTrue", procs[p].pendingState)

LoginReturnTrue(p) ==
    /\ Resumes(p)
    /\ procs[p].pc = "login_returnTrue"
    /\ Finish(p, "true")

LoginFailUpdate(p) ==
    /\ Resumes(p)
    /\ procs[p].pc = "login_failUpdate"
    /\ FinishUpdateErrorState(p, "login_returnFalse")

LoginReturnFalse(p) ==
    /\ Resumes(p)
    /\ procs[p].pc = "login_returnFalse"
    /\ Finish(p, "false")

LoginCatchUpdate(p) ==
    /\ Resumes(p)
    /\ procs[p].pc = "login_catchUpdate"
    /\ FinishUpdateErrorState(p, "login_rethrow")

LoginRethrow(p) ==
    /\ Resumes(p)
    /\ procs[p].pc = "login_rethrow"
    /\ Finish(p, procs[p].error)

\* recordActivity resumes after `await this.stateManager.getState()`
RecGotState(p) ==
    /\ Resumes(p)
    /\ procs[p].pc = "rec_gotState"
    /\ IF procs[p].arg.user = Null
       THEN Finish(p, "rejected: User not logged in")
       ELSE /\ procs' = [procs EXCEPT ![p].pc = "rec_insert"]
            /\ microtasks' = Tail(microtasks)
            /\ UNCHANGED <<state, errorState, clock, serialState, serialError, notStateVars>>

\* recordActivity resumes after `await this.db.insertOne(...)`
RecInserted(p) ==
    /\ Resumes(p)
    /\ procs[p].pc = "rec_inserted"
    /\ IF procs[p].threw
       THEN StartUpdateErrorState(p, "rec_catchUpdate")
       ELSE \* updateState(state => state.withLastActivity(new Date()))
            /\ procs' = [procs EXCEPT
                  ![p].pendingState = withLastActivity(state, clock),
                  ![p].pc = "rec_assign"]
            /\ microtasks' = Append(Tail(microtasks), p)
            /\ UNCHANGED <<state, errorState, clock, serialState, serialError, notStateVars>>

RecAssign(p) ==
    /\ Resumes(p)
    /\ procs[p].pc = "rec_assign"
    /\ FinishUpdateState(p, "rec_return",
          withLastActivity(serialState, procs[p].pendingState.lastActivity))

RecReturn(p) ==
    /\ Resumes(p)
    /\ procs[p].pc = "rec_return"
    /\ Finish(p, "true")

RecCatchUpdate(p) ==
    /\ Resumes(p)
    /\ procs[p].pc = "rec_catchUpdate"
    /\ FinishUpdateErrorState(p, "rec_rethrow")

RecRethrow(p) ==
    /\ Resumes(p)
    /\ procs[p].pc = "rec_rethrow"
    /\ Finish(p, procs[p].error)

\* time passes
Tick ==
    /\ clock < MaxClock
    /\ clock' = clock + 1
    /\ UNCHANGED <<state, errorState, procs, microtasks, serialState, serialError, notStateVars>>


(***************************************************************************)
(* Configuration example: ConfigSchema, Config, ConfigManager              *)
(***************************************************************************)
\* JavaScript values
JsNum(n) == [t |-> "number", n |-> n, s |-> ""]
JsNaN == [t |-> "NaN", n |-> 0, s |-> ""]
JsStr(str) == [t |-> "string", n |-> 0, s |-> str]
JsObj == [t |-> "object", n |-> 0, s |-> ""]
JsUndefined == [t |-> "undefined", n |-> 0, s |-> ""]

\* typeof v === 'number' (NaN is a number)
IsNumber(v) == v.t \in {"number", "NaN"}
\* typeof v === 'string'
IsString(v) == v.t = "string"
\* !v is false
Truthy(v) ==
    \/ v.t = "object"
    \/ v.t = "number" /\ v.n # 0
    \/ v.t = "string" /\ v.s # ""
\* a < b, a <= b, a > b on numbers: false when an operand is NaN
JsLt(a, b) == a.t = "number" /\ b.t = "number" /\ a.n < b.n
JsLe(a, b) == a.t = "number" /\ b.t = "number" /\ a.n <= b.n
JsGt(a, b) == a.t = "number" /\ b.t = "number" /\ a.n > b.n

SchemaKeys == <<"database", "api", "cache", "logger">>
Keys == {SchemaKeys[i] : i \in 1..Len(SchemaKeys)}

\* section values; `object` is false for a value that is not an object
\* (undefined, a string, ...), whose fields all read as undefined
DatabaseSection(url, options) ==
    [object |-> TRUE, url |-> url, options |-> options]
ApiSection(timeout, maxRetries) ==
    [object |-> TRUE, baseUrl |-> JsStr("https://api.example.com"),
     apiKey |-> JsStr("secret-key"), timeout |-> timeout, maxRetries |-> maxRetries]
CacheSection(ttl) == [object |-> TRUE, ttl |-> ttl]
LoggerSection(level) == [object |-> TRUE, level |-> level]
NotAnObject == [object |-> FALSE]

ValidLevels == {"debug", "info", "warn", "error"}

\* the validators of ConfigManager's schema: the message thrown, "" when none
DatabaseValidator(value) ==
    IF ~value.object THEN "Database configuration must be an object"
    ELSE IF ~Truthy(value.url) \/ ~IsString(value.url)
    THEN "Database URL must be a string"
    ELSE IF ~Truthy(value.options) \/ value.options.t # "object"
    THEN "Database options must be an object"
    ELSE ""

ApiValidator(value) ==
    IF ~value.object THEN "API configuration must be an object"
    ELSE IF ~Truthy(value.baseUrl) \/ ~IsString(value.baseUrl)
    THEN "API base URL must be a string"
    ELSE IF ~Truthy(value.apiKey) \/ ~IsString(value.apiKey)
    THEN "API key must be a string"
    ELSE IF ~IsNumber(value.timeout) \/ JsLe(value.timeout, JsNum(0))
    THEN "API timeout must be a positive number"
    ELSE IF ~IsNumber(value.maxRetries) \/ JsLt(value.maxRetries, JsNum(0))
    THEN "API max retries must be a non-negative number"
    ELSE ""

CacheValidator(value) ==
    IF ~value.object THEN "Cache configuration must be an object"
    ELSE IF ~IsNumber(value.ttl) \/ JsLe(value.ttl, JsNum(0))
    THEN "Cache TTL must be a positive number"
    ELSE ""

LoggerValidator(value) ==
    IF ~value.object THEN "Logger configuration must be an object"
    ELSE IF ~Truthy(value.level) \/ ~IsString(value.level)
    THEN "Logger level must be a string"
    ELSE IF value.level.s \notin ValidLevels
    THEN "Logger level must be one of: debug, info, warn, error"
    ELSE ""

Validator(key, value) ==
    IF key = "database" THEN DatabaseValidator(value)
    ELSE IF key = "api" THEN ApiValidator(value)
    ELSE IF key = "cache" THEN CacheValidator(value)
    ELSE LoggerValidator(value)

\* ConfigSchema.validate(config): the loop over Object.entries(this.schema),
\* from entry i on; errors collects `Invalid ${key}: ${error.message}`
RECURSIVE ValidateFrom(_, _, _)
ValidateFrom(i, sections, errors) ==
    IF i > Len(SchemaKeys) THEN errors
    ELSE LET key == SchemaKeys[i]
             message == Validator(key, sections[key])
         IN  ValidateFrom(i + 1, sections,
                 IF message = "" THEN errors
                 ELSE Append(errors, [key |-> key, message |-> message]))

validate(sections) == ValidateFrom(1, sections, <<>>)

\* the Error validate throws when errors is not empty
ValidationError(errors) ==
    [prefix |-> "Configuration validation failed", errors |-> errors]
NoError == [prefix |-> "", errors |-> <<>>]

\* the inputs
DatabaseInputs ==
    { DatabaseSection(JsStr("mongodb://localhost:27017/myapp"), JsObj),
      DatabaseSection(JsNum(123), JsStr("invalid")) }
ApiInputs ==
    { ApiSection(JsNum(5000), JsNum(3)),
      ApiSection(JsNum(-1), JsStr("invalid")),
      ApiSection(JsNaN, JsNum(0)),
      NotAnObject }
CacheInputs == { CacheSection(JsNum(1)), CacheSection(JsNum(-1)) }
LoggerInputs == { LoggerSection(JsStr("info")), LoggerSection(JsStr("invalid")) }
SectionInputs(key) ==
    IF key = "database" THEN DatabaseInputs
    ELSE IF key = "api" THEN ApiInputs
    ELSE IF key = "cache" THEN CacheInputs
    ELSE LoggerInputs

MaxConfigs == 2

InitConfig ==
    /\ heap = <<>>
    /\ configs = <<>>
    /\ lastThrown = NoError
    /\ lastOp = "none"
    /\ candidate = <<>>

\* Config.get(key) on config c, read through to the fields of the section
get(c, key) == heap[configs[c].values[key]]

\* new Config(values, schema): validate, then freeze a shallow copy. refs maps
\* each key to the reference of its section object in newHeap.
NewConfig(refs, newHeap, op) ==
    LET errors == validate([k \in Keys |-> newHeap[refs[k]]])
    IN  /\ UNCHANGED notConfigVars
        /\ lastOp' = op
        /\ candidate' = [k \in Keys |-> newHeap[refs[k]]]
        /\ IF errors # <<>>
           THEN /\ lastThrown' = ValidationError(errors)
                /\ UNCHANGED <<heap, configs>>
           ELSE /\ lastThrown' = NoError
                /\ heap' = newHeap
                /\ configs' = Append(configs, [values |-> refs])

\* ConfigManager.createConfig(values) with four fresh section objects
createConfig(database, api, cache, logger) ==
    /\ Len(configs) < MaxConfigs
    /\ LET n == Len(heap)
           newHeap == heap \o <<database, api, cache, logger>>
           refs == [k \in Keys |->
                      IF k = "database" THEN n + 1
                      ELSE IF k = "api" THEN n + 2
                      ELSE IF k = "cache" THEN n + 3
                      ELSE n + 4]
       IN  NewConfig(refs, newHeap, "createConfig")

\* config.with(key, value): { ...this.values, [key]: value } keeps the
\* references of the other sections
with(c, key, value) ==
    /\ c \in 1..Len(configs)
    /\ Len(configs) < MaxConfigs
    /\ LET newHeap == Append(heap, value)
           refs == [configs[c].values EXCEPT ![key] = Len(heap) + 1]
       IN  NewConfig(refs, newHeap, "with")

\* config.values[key] = value: values is frozen, the assignment has no effect
\* (it is ignored, or throws a TypeError in strict mode)
AssignValue(c, key) ==
    /\ c \in 1..Len(configs)
    /\ lastOp' = "assignValue"
    /\ UNCHANGED notConfigVars
    /\ UNCHANGED <<heap, configs, lastThrown, candidate>>

\* config.get(key).field = value: Object.freeze is shallow, the section
\* object is an ordinary mutable object
AssignSectionField(c, key, field, value) ==
    /\ c \in 1..Len(configs)
    /\ heap' = [heap EXCEPT ![configs[c].values[key]][field] = value]
    /\ lastOp' = "assignSectionField"
    /\ UNCHANGED notConfigVars
    /\ UNCHANGED <<configs, lastThrown, candidate>>

\* the assignments to fields of sections that are tried
FieldInputs ==
    { <<"api", "timeout", JsNum(-1)>>,
      <<"api", "timeout", JsNum(5000)>>,
      <<"cache", "ttl", JsNum(2)>>,
      <<"logger", "level", JsStr("debug")>> }

NextConfig ==
    \/ \E database \in DatabaseInputs, api \in ApiInputs,
          cache \in CacheInputs, logger \in LoggerInputs :
          createConfig(database, api, cache, logger)
    \/ \E c \in 1..MaxConfigs, key \in Keys :
          \E value \in SectionInputs(key) : with(c, key, value)
    \/ \E c \in 1..MaxConfigs, key \in Keys : AssignValue(c, key)
    \/ \E c \in 1..MaxConfigs, a \in FieldInputs :
          AssignSectionField(c, a[1], a[2], a[3])

(***************************************************************************)
(* Configuration example: APIClient.request                                *)
(***************************************************************************)
MaxRetries == 3

\* the api sections a client may be configured with: those of the candidates
\* that ConfigManager's schema accepts
ApiCandidates ==
    {ApiSection(JsNum(5000), JsNum(n)) : n \in -1..MaxRetries}
        \cup {ApiSection(JsNum(5000), JsNaN)}
AcceptedApiConfigs == {api \in ApiCandidates : ApiValidator(api) = ""}

\* what a fetch call can do: reject, or resolve with a response that is ok or
\* not, whose json() resolves with the body or rejects
FetchOutcome(responded, ok, parsed, value) ==
    [responded |-> responded, ok |-> ok, parsed |-> parsed, value |-> value]
FetchOutcomes ==
    { FetchOutcome(TRUE, TRUE, TRUE, "data1"),
      FetchOutcome(TRUE, TRUE, TRUE, "data2"),
      FetchOutcome(TRUE, TRUE, FALSE, "Unexpected end of JSON input"),
      FetchOutcome(TRUE, FALSE, FALSE, "HTTP error! status: 500"),
      FetchOutcome(FALSE, FALSE, FALSE, "Network error") }

Settlement(kind, value) == [kind |-> kind, value |-> value]
Pending == Settlement("pending", "")

InitApiClient ==
    /\ apiConfig = ApiSection(JsNum(5000), JsNum(MaxRetries))
    /\ apiPc = "idle"
    /\ retries = 0
    /\ attempts = <<>>
    /\ apiResult = Pending

\* `while (retries < apiConfig.maxRetries)` with retries = r: the next fetch
\* is issued, or the loop ends and request returns undefined
LoopHead(r, api) ==
    IF JsLt(JsNum(r), api.maxRetries)
    THEN /\ apiPc' = "fetching"
         /\ apiResult' = Pending
    ELSE /\ apiPc' = "done"
         /\ apiResult' = Settlement("resolved", "undefined")

\* APIClient.request(endpoint) on a client configured with api
request(api) ==
    /\ apiPc \in {"idle", "done"}
    /\ apiConfig' = api
    /\ retries' = 0
    /\ attempts' = <<>>
    /\ LoopHead(0, api)
    /\ UNCHANGED notApiVars

\* the fetch settles; the body of the try block and the catch block run
FetchSettles(outcome) ==
    /\ apiPc = "fetching"
    /\ attempts' = Append(attempts, outcome)
    /\ IF outcome.responded /\ outcome.ok /\ outcome.parsed
       THEN \* return await response.json()
            /\ apiPc' = "done"
            /\ apiResult' = Settlement("resolved", outcome.value)
            /\ UNCHANGED retries
       ELSE \* catch (error)
            /\ retries' = retries + 1
            /\ IF JsNum(retries + 1) = apiConfig.maxRetries
               THEN /\ apiPc' = "done"
                    /\ apiResult' = Settlement("rejected", outcome.value)
               ELSE /\ apiPc' = "backoff"
                    /\ UNCHANGED apiResult
    /\ UNCHANGED <<apiConfig, notApiVars>>

\* the timer of `setTimeout(resolve, 1000 * retries)` fires
BackoffEnds ==
    /\ apiPc = "backoff"
    /\ LoopHead(retries, apiConfig)
    /\ UNCHANGED <<apiConfig, retries, attempts, notApiVars>>

NextApi ==
    \/ \E api \in AcceptedApiConfigs : request(api)
    \/ \E outcome \in FetchOutcomes : FetchSettles(outcome)
    \/ BackoffEnds

(***************************************************************************)
(* Configuration example: Cache                                            *)
(***************************************************************************)
MaxTtl == 2
MaxNow == 3000
\* the amounts by which the tests' fake timers advance the time (ms)
TimeSteps == {500, 1000}

CacheKeys == {"k1", "k2"}
CacheValues == {"v1", "v2"}

\* the cache sections a Cache may be configured with: those of the
\* candidates that ConfigManager's schema accepts
CacheCandidates == {CacheSection(JsNum(ttl)) : ttl \in 0..MaxTtl}
AcceptedCacheConfigs == {cache \in CacheCandidates : CacheValidator(cache) = ""}

\* an entry { value, expiry } of the store; NoItem when store.get(key) is undefined
Item(value, expiry) == [present |-> TRUE, value |-> value, expiry |-> expiry]
NoItem == [present |-> FALSE, value |-> Null, expiry |-> 0]

NeverSet == [done |-> FALSE, value |-> Null, at |-> 0]

InitCache ==
    /\ cacheConfig = CacheSection(JsNum(1))
    /\ store = [key \in CacheKeys |-> NoItem]
    /\ now = 0
    /\ lastSet = [key \in CacheKeys |-> NeverSet]
    /\ got = [op |-> "none", key |-> Null, value |-> Null]

\* new Cache(config): an empty store
NewCache(cache) ==
    /\ got.op = "none"
    /\ cacheConfig' = cache
    /\ store' = [key \in CacheKeys |-> NoItem]
    /\ lastSet' = [key \in CacheKeys |-> NeverSet]
    /\ got' = [op |-> "new", key |-> Null, value |-> Null]
    /\ UNCHANGED <<now, notCacheVars>>

\* Date.now() + (ttl * 1000)
Expiry(ttl) == now + (ttl.n * 1000)

ExpiredMutant(item) == now >= item.expiry

\* Date.now() > item.expiry
Expired(item) == now > item.expiry

\* Cache.set(key, value)
CacheSet(key, value) ==
    /\ got.op # "none"
    /\ store' = [store EXCEPT ![key] = Item(value, Expiry(cacheConfig.ttl))]
    /\ lastSet' = [lastSet EXCEPT ![key] = [done |-> TRUE, value |-> value, at |-> now]]
    /\ got' = [op |-> "set", key |-> key, value |-> Null]
    /\ UNCHANGED <<cacheConfig, now, notCacheVars>>

\* Cache.get(key)
CacheGet(key) ==
    /\ got.op # "none"
    /\ LET item == store[key]
       IN  IF ~item.present
           THEN /\ got' = [op |-> "get", key |-> key, value |-> Null]
                /\ UNCHANGED store
           ELSE IF Expired(item)
           THEN /\ store' = [store EXCEPT ![key] = NoItem]
                /\ got' = [op |-> "get", key |-> key, value |-> Null]
           ELSE /\ got' = [op |-> "get", key |-> key, value |-> item.value]
                /\ UNCHANGED store
    /\ UNCHANGED <<cacheConfig, now, lastSet, notCacheVars>>

\* time passes (jest.advanceTimersByTime)
AdvanceTime(ms) ==
    /\ now + ms <= MaxNow
    /\ now' = now + ms
    /\ got' = [op |-> "advance", key |-> Null, value |-> Null]
    /\ UNCHANGED <<cacheConfig, store, lastSet, notCacheVars>>

NextCache ==
    \/ \E cache \in AcceptedCacheConfigs : NewCache(cache)
    \/ \E key \in CacheKeys, value \in CacheValues : CacheSet(key, value)
    \/ \E key \in CacheKeys : CacheGet(key)
    \/ \E ms \in TimeSteps : AdvanceTime(ms)

(***************************************************************************)
(* Complex logic example: the refactored OrderProcessor.processOrder       *)
(***************************************************************************)
Undefined == "undefined"

\* an order: present is false for null / undefined; items is Undefined,
\* "empty" or "some"; customer is Undefined, "noId" or the customer's id;
\* method is Undefined (no payment), "noMethod" or the payment method
Order(present, items, customerId, method, total, priority) ==
    [present |-> present, items |-> items, customer |-> customerId,
     method |-> method, total |-> total, priority |-> priority, id |-> "o1"]
NullOrder == Order(FALSE, Undefined, Undefined, Undefined, JsUndefined, Undefined)
OrderInputs ==
    {NullOrder} \cup
    { Order(TRUE, items, customerId, method, total, priority) :
        items \in {Undefined, "empty", "some"},
        customerId \in {Undefined, "noId", "c1"},
        method \in {Undefined, "noMethod", "credit_card", "paypal"},
        total \in {JsNum(1), JsNum(2)},
        priority \in {"high", "normal"} }

\* what the customers collection can hold for the id
Customer(found, status, creditLimit) ==
    [settled |-> TRUE, found |-> found, id |-> "c1", status |-> status,
     creditLimit |-> creditLimit]
\* customer before getCustomer has settled
NoCustomer == [Customer(FALSE, Undefined, JsUndefined) EXCEPT !.settled = FALSE]
CustomerOutcomes ==
    {Customer(FALSE, Undefined, JsUndefined)} \cup
    { Customer(TRUE, status, creditLimit) :
        status \in {"active", "suspended"},
        creditLimit \in {JsNum(0), JsNum(1), JsNum(2), JsUndefined} }

PaymentResult(success, id, method) ==
    [settled |-> TRUE, success |-> success, id |-> id, method |-> method]
\* paymentResult before processPayment has settled
NoPayment == [PaymentResult(FALSE, Undefined, Undefined) EXCEPT !.settled = FALSE]
PaymentOutcomes ==
    { PaymentResult(TRUE, "pay1", "credit_card"), PaymentResult(TRUE, "pay2", Undefined),
      PaymentResult(FALSE, Undefined, Undefined) }

InventoryResult(success, available) ==
    [settled |-> TRUE, success |-> success, available |-> available]
\* inventoryResult before updateInventory has settled
NoInventory == [InventoryResult(FALSE, FALSE) EXCEPT !.settled = FALSE]
InventoryOutcomes ==
    { InventoryResult(TRUE, TRUE), InventoryResult(TRUE, FALSE),
      InventoryResult(FALSE, FALSE) }

\* an injected service resolves ("ok") or rejects with its error
ServiceFailure(service) == service \o " failed"

Call(name, arg) == [name |-> name, arg |-> arg]
Called(name) == \E i \in 1..Len(serviceCalls) : serviceCalls[i].name = name

Validation(valid, error) == [valid |-> valid, error |-> error]

\* validateOrder(order)
validateOrder(o) ==
    IF ~o.present \/ o.items = Undefined \/ o.items = "empty"
    THEN Validation(FALSE, "Invalid order")
    ELSE IF o.customer = Undefined \/ o.customer = "noId"
    THEN Validation(FALSE, "Invalid customer")
    ELSE IF o.method = Undefined \/ o.method = "noMethod"
    THEN Validation(FALSE, "Invalid payment method")
    ELSE Validation(TRUE, "")

validateCustomerMutant(c, orderTotal) ==
    IF ~c.found
    THEN Validation(FALSE, "Customer not found")
    ELSE IF c.status # "active"
    THEN Validation(FALSE, "Customer account is not active")
    ELSE IF JsLe(c.creditLimit, orderTotal)
    THEN Validation(FALSE, "Credit limit exceeded")
    ELSE Validation(TRUE, "")

\* validateCustomer(customer, orderTotal)
validateCustomer(c, orderTotal) ==
    IF ~c.found
    THEN Validation(FALSE, "Customer not found")
    ELSE IF c.status # "active"
    THEN Validation(FALSE, "Customer account is not active")
    ELSE IF JsLt(c.creditLimit, orderTotal)
    THEN Validation(FALSE, "Credit limit exceeded")
    ELSE Validation(TRUE, "")

\* calculateOrderStatus(order, paymentResult, inventoryResult)
calculateOrderStatus(o, payment, inventory) ==
    LET isHighPriority == o.priority = "high"
        isCreditCard == payment.method = "credit_card"
        isAvailable == inventory.available
    IN  IF isHighPriority
        THEN IF isCreditCard
             THEN (IF isAvailable THEN "processing" ELSE "backordered")
             ELSE (IF isAvailable THEN "pending" ELSE "cancelled")
        ELSE IF isCreditCard
             THEN (IF isAvailable THEN "processing" ELSE "backordered")
             ELSE (IF isAvailable THEN "pending" ELSE "cancelled")

InitOrderProcessor ==
    /\ order = NullOrder
    /\ orderPc = "idle"
    /\ customer = NoCustomer
    /\ paymentResult = NoPayment
    /\ inventoryResult = NoInventory
    /\ serviceCalls = <<>>
    /\ failedCall = "none"
    /\ orderResult = Pending

\* `catch (error) { await this.handleError(error); throw error; }`
Rejects(message) ==
    /\ orderPc' = "done"
    /\ orderResult' = Settlement("rejected", message)
    /\ failedCall' = "none"

\* the awaited service call rejected: its error reaches the same catch block
ServiceRejects(service) ==
    /\ orderPc' = "done"
    /\ orderResult' = Settlement("rejected", ServiceFailure(service))
    /\ failedCall' = service

RefundArgumentMutant(payment) == order.id

\* the argument of the refundPayment call
RefundArgument(payment) == payment.id

\* processOrder(order): up to `await this.getCustomer(order.customer.id)`
processOrder(o) ==
    /\ orderPc \in {"idle", "done"}
    /\ order' = o
    /\ customer' = NoCustomer
    /\ paymentResult' = NoPayment
    /\ inventoryResult' = NoInventory
    /\ LET orderValidation == validateOrder(o)
       IN  IF ~orderValidation.valid
           THEN /\ Rejects(orderValidation.error)
                /\ serviceCalls' = <<>>
           ELSE /\ orderPc' = "getCustomer"
                /\ orderResult' = Pending
                /\ failedCall' = "none"
                /\ serviceCalls' = <<Call("customers.findOne", o.customer)>>
    /\ UNCHANGED notOrderVars

\* getCustomer settles; up to `await this.processPayment(order, customer)`
CustomerSettles(outcome, fails) ==
    /\ orderPc = "getCustomer"
    /\ IF fails
       THEN /\ ServiceRejects("customers.findOne")
            /\ UNCHANGED <<customer, serviceCalls>>
       ELSE /\ customer' = outcome
            /\ LET customerValidation == validateCustomer(outcome, order.total)
               IN  IF ~customerValidation.valid
                   THEN /\ Rejects(customerValidation.error)
                        /\ UNCHANGED serviceCalls
                   ELSE /\ orderPc' = "processPayment"
                        /\ serviceCalls' =
                               Append(serviceCalls, Call("processPayment", outcome.id))
                        /\ UNCHANGED <<orderResult, failedCall>>
    /\ UNCHANGED <<order, paymentResult, inventoryResult, notOrderVars>>

\* processPayment settles; up to `await this.updateInventory(order.items)`
PaymentSettles(outcome, fails) ==
    /\ orderPc = "processPayment"
    /\ IF fails
       THEN /\ ServiceRejects("processPayment")
            /\ UNCHANGED <<paymentResult, serviceCalls>>
       ELSE /\ paymentResult' = outcome
            /\ IF ~outcome.success
               THEN /\ Rejects("Payment processing failed")
                    /\ UNCHANGED serviceCalls
               ELSE /\ orderPc' = "updateInventory"
                    /\ serviceCalls' =
                           Append(serviceCalls, Call("updateInventory", order.items))
                    /\ UNCHANGED <<orderResult, failedCall>>
    /\ UNCHANGED <<order, customer, inventoryResult, notOrderVars>>

\* updateInventory settles; up to `await this.refundPayment(paymentResult.id)`
\* or to `await this.saveOrder(...)`
InventorySettles(outcome, fails) ==
    /\ orderPc = "updateInventory"
    /\ IF fails
       THEN /\ ServiceRejects("updateInventory")
            /\ UNCHANGED <<inventoryResult, serviceCalls>>
       ELSE /\ inventoryResult' = outcome
            /\ UNCHANGED <<orderResult, failedCall>>
            /\ IF ~outcome.success
               THEN /\ orderPc' = "refundPayment"
                    /\ serviceCalls' =
                           Append(serviceCalls,
                                  Call("refundPayment", RefundArgument(paymentResult)))
               ELSE /\ orderPc' = "saveOrder"
                    /\ serviceCalls' =
                           Append(serviceCalls,
                                  Call("orders.insertOne",
                                       calculateOrderStatus(order, paymentResult, outcome)))
    /\ UNCHANGED <<order, customer, paymentResult, notOrderVars>>

\* refundPayment settles; `throw new Error('Inventory update failed')`
RefundSettles(fails) ==
    /\ orderPc = "refundPayment"
    /\ IF fails
       THEN ServiceRejects("refundPayment")
       ELSE Rejects("Inventory update failed")
    /\ UNCHANGED <<order, customer, paymentResult, inventoryResult, serviceCalls,
                   notOrderVars>>

\* saveOrder settles; sendNotifications starts its three calls
SaveSettles(fails) ==
    /\ orderPc = "saveOrder"
    /\ IF fails
       THEN /\ ServiceRejects("orders.insertOne")
            /\ UNCHANGED serviceCalls
       ELSE /\ orderPc' = "sendNotifications"
            /\ serviceCalls' = serviceCalls \o
                   << Call("sendOrderConfirmation", order.id),
                      Call("notifyWarehouse", order.id),
                      Call("notifyShipping", order.id) >>
            /\ UNCHANGED <<orderResult, failedCall>>
    /\ UNCHANGED <<order, customer, paymentResult, inventoryResult, notOrderVars>>

NotificationServices == {"sendOrderConfirmation", "notifyWarehouse", "notifyShipping"}

\* the Promise.all of sendNotifications settles: failed is the call that
\* rejected first, or "none"
NotificationsSettle(failed) ==
    /\ orderPc = "sendNotifications"
    /\ IF failed # "none"
       THEN ServiceRejects(failed)
       ELSE /\ orderPc' = "done"
            /\ failedCall' = "none"
            /\ orderResult' =
                   Settlement("resolved",
                              calculateOrderStatus(order, paymentResult, inventoryResult))
    /\ UNCHANGED <<order, customer, paymentResult, inventoryResult, serviceCalls,
                   notOrderVars>>

NextOrder ==
    \/ \E o \in OrderInputs : processOrder(o)
    \/ \E outcome \in CustomerOutcomes, fails \in BOOLEAN : CustomerSettles(outcome, fails)
    \/ \E outcome \in PaymentOutcomes, fails \in BOOLEAN : PaymentSettles(outcome, fails)
    \/ \E outcome \in InventoryOutcomes, fails \in BOOLEAN : InventorySettles(outcome, fails)
    \/ \E fails \in BOOLEAN : RefundSettles(fails)
    \/ \E fails \in BOOLEAN : SaveSettles(fails)
    \/ \E failed \in NotificationServices \cup {"none"} : NotificationsSettle(failed)

(***************************************************************************)
(* Async example: the testable DataFetcher                                 *)
(***************************************************************************)
MaxFetches == 3

UserIds == {"123", "456"}
FetchCalls == {1, 2}
ApiData == {"data1", "data2"}

NoFetch == [userId |-> Null, pc |-> "idle", result |-> Pending, started |-> 0]

InitDataFetcher ==
    /\ activeOperations = {}
    /\ fetcherCache = [u \in UserIds |-> Null]
    /\ operationResults = [u \in UserIds |-> Null]
    /\ fetches = [c \in FetchCalls |-> NoFetch]

\* getActiveOperations(): Array.from(this.activeOperations)
getActiveOperations == activeOperations

InFlight(c) == fetches[c].pc \in {"validateUser", "fetchWithTimeout"}

RECURSIVE StartedIn(_)
StartedIn(C) ==
    IF C = {} THEN 0
    ELSE LET c == CHOOSE d \in C : TRUE IN fetches[c].started + StartedIn(C \ {c})

CleanupMutant(active, userId, failed) ==
    IF failed THEN active ELSE active \ {userId}

\* `finally { this.activeOperations.delete(userId); }`
Cleanup(active, userId, failed) == active \ {userId}

\* the catch block: new Error(`Failed to fetch data: ${error.message}`)
FetchError(message) == Settlement("rejected", "Failed to fetch data: " \o message)

\* fetchData(userId): up to `await this.validateUser(userId)`
fetchData(c, userId) ==
    /\ ~InFlight(c)
    /\ StartedIn(FetchCalls) < MaxFetches
    /\ activeOperations' = activeOperations \cup {userId}
    /\ fetches' = [fetches EXCEPT ![c] =
          [userId |-> userId, pc |-> "validateUser", result |-> Pending,
           started |-> fetches[c].started + 1]]
    /\ UNCHANGED <<fetcherCache, operationResults, notFetchVars>>

\* a call settles: the finally block runs
FetchSettled(c, result) ==
    /\ fetches' = [fetches EXCEPT ![c].pc = "done", ![c].result = result]
    /\ activeOperations' =
          Cleanup(activeOperations, fetches[c].userId, result.kind = "rejected")

\* validateUser settles: the query found rows, found none, or failed
ValidateSettles(c, outcome) ==
    /\ fetches[c].pc = "validateUser"
    /\ LET userId == fetches[c].userId
       IN  IF outcome = "error"
           THEN FetchSettled(c, FetchError("Failed to validate user: DB error"))
           ELSE IF outcome = "noRows"
           THEN FetchSettled(c, FetchError("Invalid user"))
           ELSE IF fetcherCache[userId] # Null
           THEN FetchSettled(c, Settlement("resolved", fetcherCache[userId]))
           ELSE /\ fetches' = [fetches EXCEPT ![c].pc = "fetchWithTimeout"]
                /\ UNCHANGED activeOperations
    /\ UNCHANGED <<fetcherCache, operationResults, notFetchVars>>

FetchFailures ==
    {"HTTP error! status: 404", "The operation was aborted", "Network error"}

\* fetchWithTimeout settles with the data, or with an HTTP error, the abort
\* of the timeout or a network error
FetchWithTimeoutSettles(c, outcome) ==
    /\ fetches[c].pc = "fetchWithTimeout"
    /\ LET userId == fetches[c].userId
       IN  IF outcome \in FetchFailures
           THEN /\ FetchSettled(c, FetchError(outcome))
                /\ UNCHANGED <<fetcherCache, operationResults>>
           ELSE /\ fetcherCache' = [fetcherCache EXCEPT ![userId] = outcome]
                /\ operationResults' = [operationResults EXCEPT ![userId] = outcome]
                /\ FetchSettled(c, Settlement("resolved", outcome))
    /\ UNCHANGED notFetchVars

NextFetch ==
    \/ \E c \in FetchCalls, userId \in UserIds : fetchData(c, userId)
    \/ \E c \in FetchCalls, outcome \in {"rows", "noRows", "error"} :
          ValidateSettles(c, outcome)
    \/ \E c \in FetchCalls, outcome \in ApiData \cup FetchFailures :
          FetchWithTimeoutSettles(c, outcome)

(***************************************************************************)
(* Non-determinism example: OrderProcessor.processOrders, processQueue     *)
(***************************************************************************)
MaxOrders == 3
MaxLimit == 3
MaxBatches == 1

\* the ids of the orders of the input lists, by position
BatchOrderIds == <<"5", "3", "8", "1", "9">>
Hours == {8, 10, 17, 18}
InitialHour == 10
InitialSeed == 12345

\* the input lists: the lists of at most n orders
ListsOf(n) == {SubSeq(BatchOrderIds, 1, k) : k \in 0..n}

Min(a, b) == IF a < b THEN a ELSE b

RECURSIVE ChunkFrom(_, _, _, _)
\* chunkArray(array, size): the loop `for (let i = 0; i < array.length; i += size)`
ChunkFrom(i, array, size, chunks) ==
    IF i < Len(array)
    THEN ChunkFrom(i + size, array, size,
                   Append(chunks, SubSeq(array, i + 1, Min(i + size, Len(array)))))
    ELSE chunks

chunkArray(array, size) == ChunkFrom(0, array, size, <<>>)

RECURSIVE LengthsBefore(_, _)
\* the number of elements in the first k chunks
LengthsBefore(chunks, k) ==
    IF k = 0 THEN 0 ELSE Len(chunks[k]) + LengthsBefore(chunks, k - 1)

\* the positions in the input list of the orders of chunk k
Positions(chunks, k) ==
    {LengthsBefore(chunks, k - 1) + j : j \in 1..Len(chunks[k])}

\* RandomProvider.next(): the new seed, (this.seed * 9301 + 49297) % 233280.
\* JavaScript computes it exactly (the product stays far below 2^53); here
\* the product is reduced in two steps, 9301 = 93 * 100 + 1, to stay within
\* the 32-bit integers of the model checker
NextSeed(sd) == (((sd * 93) % 233280) * 100 + sd + 49297) % 233280

RECURSIVE SeedAfter(_, _)
\* the seed after n calls of next()
SeedAfter(sd, n) == IF n = 0 THEN sd ELSE SeedAfter(NextSeed(sd), n - 1)

\* the time check of processOrder
OutsideBusinessHours(h) == h < 9 \/ h > 17

PromiseAllMutant(positions, completionOrder) == completionOrder

RECURSIVE Ascending(_)
Ascending(positions) ==
    IF positions = {} THEN <<>>
    ELSE LET least == CHOOSE i \in positions : \A j \in positions : i <= j
         IN  <<least>> \o Ascending(positions \ {least})

\* Promise.all(chunk.map(...)): the results in the order of the chunk,
\* whatever the order in which the calls resolved
PromiseAll(positions, completionOrder) == Ascending(positions)

\* the call has not settled: no results yet
NotSettled == Settlement("pending", <<>>)

NoBatch == [method |-> "none", orders |-> <<>>, limit |-> 1, chunks |-> <<>>,
            chunk |-> 0, checkedAt |-> InitialHour, results |-> <<>>, pc |-> "idle",
            calls |-> 0]

InitBatch ==
    /\ hour = InitialHour
    /\ seed = InitialSeed
    /\ batch = NoBatch
    /\ inFlight = {}
    /\ completed = <<>>
    /\ started = {}
    /\ batchResult = NotSettled

\* the body of `for (const chunk of chunks)` for chunk k of call b: every
\* order of the chunk is handed to processOrder, which checks the time,
\* draws its processing time and sets its timer; after the last chunk the
\* results are returned
StartChunk(b, k, startedBefore) ==
    IF k > Len(b.chunks)
    THEN /\ batch' = [b EXCEPT !.pc = "done", !.chunk = k]
         /\ batchResult' = Settlement("resolved", b.results)
         /\ inFlight' = {}
         /\ completed' = <<>>
         /\ started' = startedBefore
         /\ UNCHANGED seed
    ELSE IF OutsideBusinessHours(hour)
    THEN \* checkedAt: the hour the time check of processOrder saw
         /\ batch' = [b EXCEPT !.pc = "done", !.chunk = k, !.checkedAt = hour]
         /\ batchResult' = Settlement("rejected",
                <<"Orders can only be processed during business hours">>)
         /\ inFlight' = {}
         /\ completed' = <<>>
         /\ started' = startedBefore \cup Positions(b.chunks, k)
         /\ UNCHANGED seed
    ELSE /\ batch' = [b EXCEPT !.pc = "running", !.chunk = k, !.checkedAt = hour]
         /\ batchResult' = NotSettled
         /\ inFlight' = Positions(b.chunks, k)
         /\ completed' = <<>>
         /\ started' = startedBefore \cup Positions(b.chunks, k)
         /\ seed' = SeedAfter(seed, Len(b.chunks[k]))

\* processOrders(orders, concurrencyLimit) and processQueue(queue,
\* concurrencyLimit), which have the same body
processOrders(method, orders, limit) ==
    /\ batch.pc \in {"idle", "done"}
    /\ batch.calls < MaxBatches
    /\ StartChunk([method |-> method, orders |-> orders, limit |-> limit,
                   chunks |-> chunkArray(orders, limit), chunk |-> 0,
                   checkedAt |-> hour, results |-> <<>>, pc |-> "running", calls |-> batch.calls + 1],
                  1, {})
    /\ UNCHANGED <<hour, notBatchVars>>

\* the timer of the processOrder call at position i fires and the call
\* resolves; when it is the last of its chunk, Promise.all resolves, the
\* chunk's results are pushed and the loop goes on
TimerFires(i) ==
    /\ batch.pc = "running"
    /\ i \in inFlight
    /\ IF inFlight = {i}
       THEN LET chunkResults ==
                    PromiseAll(Positions(batch.chunks, batch.chunk), Append(completed, i))
                pushed == batch.results \o
                    [j \in 1..Len(chunkResults) |-> batch.orders[chunkResults[j]]]
            IN  StartChunk([batch EXCEPT !.results = pushed], batch.chunk + 1, started)
       ELSE /\ inFlight' = inFlight \ {i}
            /\ completed' = Append(completed, i)
            /\ UNCHANGED <<seed, batch, started, batchResult>>
    /\ UNCHANGED <<hour, notBatchVars>>

\* TimeProvider.setTime(time)
setTime(h) ==
    /\ h # hour
    /\ hour' = h
    /\ UNCHANGED <<seed, batch, inFlight, completed, started, batchResult, notBatchVars>>

NextBatch ==
    \/ \E method \in {"processOrders", "processQueue"},
          orders \in ListsOf(MaxOrders), limit \in 1..MaxLimit :
          processOrders(method, orders, limit)
    \/ \E i \in 1..MaxOrders : TimerFires(i)
    \/ \E h \in Hours : setTime(h)

(***************************************************************************)
(* Dependency example: UserService.getUser, OrderService.getOrder          *)
(***************************************************************************)
MaxDepCalls == 3

DepUserIds == {"123", "124"}
DepOrderIds == {"456", "457", "999"}

\* a value the API answers with: a user object (a missing name reads
\* undefined) or JSON null
JsUser(t, id, name) == [t |-> t, id |-> id, name |-> name]
NullUser == JsUser("null", Undefined, Undefined)
NoUser == JsUser("undefined", Undefined, Undefined)
ApiUsers(userId) ==
    {JsUser("object", userId, "Test User"), JsUser("object", userId, Undefined), NullUser}
AllApiUsers == UNION {ApiUsers(userId) : userId \in DepUserIds \cup {Undefined}}

\* JSON.stringify(user): fields whose value is undefined are left out
JSONstringify(user) ==
    IF user.t = "null" THEN "null"
    ELSE "{\"id\":\"" \o user.id \o "\"" \o
         (IF user.name = Undefined THEN "" ELSE ",\"name\":\"" \o user.name \o "\"") \o "}"

\* JSON.parse(text) of a text written by JSON.stringify
JSONparse(text) == CHOOSE user \in AllApiUsers : JSONstringify(user) = text

\* `user:${userId}`
CacheKey(userId) == "user:" \o userId
DepCacheKeys == {CacheKey(userId) : userId \in DepUserIds}

CacheEntry(present, value) == [present |-> present, value |-> value]
NoEntry == CacheEntry(FALSE, "")

CacheHitMutant(cached) == cached.present /\ cached.value # "null"

\* if (cached): the client found a non-empty string
CacheHit(cached) == cached.present /\ cached.value # ""

DepErrors == [api |-> "API error", db |-> "DB error", cacheSet |-> "Cache error",
              cacheGet |-> "Cache read error", getUser |-> "User error"]

\* how a call settled: its value when resolved, its error when rejected
DepSettlement(kind, value, error) == [kind |-> kind, value |-> value, error |-> error]
DepPending == DepSettlement("pending", NoUser, "")

NoGetUser ==
    [pc |-> "idle", userId |-> Undefined, useCache |-> TRUE, cached |-> NoEntry,
     user |-> NoUser, failed |-> "none", result |-> DepPending]

\* the orders collection of the database behind db.query
OrderRow(id, userId, total) == [id |-> id, userId |-> userId, total |-> total]
OrderRows == {OrderRow("456", "123", 100), OrderRow("457", "124", 50)}

\* a JavaScript array as an object: its elements under the keys "0", "1", ...
IndexKeys == <<"0", "1">>
ArrayObject(rows) ==
    [key \in {IndexKeys[i] : i \in 1..Len(rows)} |->
        rows[CHOOSE i \in 1..Len(rows) : IndexKeys[i] = key]]

\* connection.collection('orders').find({id: orderId}).toArray()
FindOrders(orderId) ==
    IF \E row \in OrderRows : row.id = orderId
    THEN <<CHOOSE row \in OrderRows : row.id = orderId>>
    ELSE <<>>

\* object.key: undefined when the object has no such property
GetProperty(object, key) == IF key \in DOMAIN object THEN object[key] ELSE Undefined

\* { ...object, user }
SpreadWithUser(object, user) ==
    [key \in DOMAIN object \cup {"user"} |-> IF key = "user" THEN user ELSE object[key]]

NoGetOrder ==
    [pc |-> "idle", orderId |-> Undefined, order |-> ArrayObject(<<>>),
     getUserArg |-> Undefined, user |-> NoUser, kind |-> "pending",
     value |-> ArrayObject(<<>>), error |-> "", calls |-> 0]

InitDep ==
    /\ cacheClient = [key \in DepCacheKeys |-> NoEntry]
    /\ getUserCall = [NoGetUser EXCEPT !.pc = "idle"]
    /\ depCalls = <<>>
    /\ getOrderCall = NoGetOrder

DepIdle ==
    /\ getUserCall.pc \in {"idle", "done"}
    /\ getOrderCall.pc \in {"idle", "done"}
    /\ getOrderCall.calls < MaxDepCalls

\* new UserService(config, ...): config.features.useCache
createUserService(useCache) ==
    /\ DepIdle
    /\ getUserCall.useCache # useCache
    /\ getUserCall' = [NoGetUser EXCEPT !.useCache = useCache]
    /\ UNCHANGED <<cacheClient, depCalls, getOrderCall, notDepVars>>

\* UserService.getUser(userId), up to its first await
getUser(userId) ==
    /\ DepIdle
    /\ LET log == <<Call("logger.info", "Fetching user " \o userId)>>
           me == [NoGetUser EXCEPT !.userId = userId, !.useCache = getUserCall.useCache]
       IN  IF me.useCache
           THEN /\ depCalls' = Append(log, Call("cache.get", CacheKey(userId)))
                /\ getUserCall' = [me EXCEPT !.pc = "cache.get"]
           ELSE /\ depCalls' = Append(log, Call("api.request", "/users/" \o userId))
                /\ getUserCall' = [me EXCEPT !.pc = "api.request"]
    /\ getOrderCall' = [getOrderCall EXCEPT !.calls = @ + 1]
    /\ UNCHANGED <<cacheClient, notDepVars>>

\* catch (error) { this.errorHandler.handle(error); throw error; }
CatchError(failed) ==
    /\ depCalls' = Append(depCalls, Call("errorHandler.handle", DepErrors[failed]))
    /\ getUserCall' = [getUserCall EXCEPT !.pc = "done", !.failed = failed,
                          !.result = DepSettlement("rejected", NoUser, DepErrors[failed])]

\* await this.cache.get(...) settles
CacheGetSettles(fails) ==
    /\ getUserCall.pc = "cache.get"
    /\ IF fails
       THEN /\ getUserCall' = [getUserCall EXCEPT !.pc = "done", !.failed = "cacheGet",
                   !.result = DepSettlement("rejected", NoUser, DepErrors.cacheGet)]
            /\ UNCHANGED depCalls
       ELSE LET cached == cacheClient[CacheKey(getUserCall.userId)]
            IN  IF CacheHit(cached)
                THEN /\ getUserCall' = [getUserCall EXCEPT !.pc = "done", !.cached = cached,
                            !.result = DepSettlement("resolved", JSONparse(cached.value), "")]
                     /\ UNCHANGED depCalls
                ELSE /\ getUserCall' = [getUserCall EXCEPT !.pc = "api.request",
                                                           !.cached = cached]
                     /\ depCalls' = Append(depCalls,
                            Call("api.request", "/users/" \o getUserCall.userId))
    /\ UNCHANGED <<cacheClient, getOrderCall, notDepVars>>

\* await this.api.request(...) settles
ApiRequestSettles(fails, user) ==
    /\ getUserCall.pc = "api.request"
    /\ user \in ApiUsers(getUserCall.userId)
    /\ IF fails
       THEN CatchError("api")
       ELSE /\ getUserCall' = [getUserCall EXCEPT !.pc = "db.query", !.user = user]
            /\ depCalls' = Append(depCalls, Call("db.query", getUserCall.userId))
    /\ UNCHANGED <<cacheClient, getOrderCall, notDepVars>>

\* await this.db.query('users', ...) settles
UsersQuerySettles(fails) ==
    /\ getUserCall.pc = "db.query"
    /\ IF fails
       THEN CatchError("db")
       ELSE /\ getUserCall' = [getUserCall EXCEPT !.pc = "cache.set"]
            /\ depCalls' = Append(depCalls,
                   Call("cache.set", JSONstringify(getUserCall.user)))
    /\ UNCHANGED <<cacheClient, getOrderCall, notDepVars>>

\* await this.cache.set(...) settles
CacheSetSettles(fails) ==
    /\ getUserCall.pc = "cache.set"
    /\ IF fails
       THEN CatchError("cacheSet") /\ UNCHANGED cacheClient
       ELSE /\ cacheClient' = [cacheClient EXCEPT ![CacheKey(getUserCall.userId)] =
                   CacheEntry(TRUE, JSONstringify(getUserCall.user))]
            /\ getUserCall' = [getUserCall EXCEPT !.pc = "done",
                   !.result = DepSettlement("resolved", getUserCall.user, "")]
            /\ UNCHANGED depCalls
    /\ UNCHANGED <<getOrderCall, notDepVars>>

\* OrderService.getOrder(orderId), up to its first await
getOrder(orderId) ==
    /\ DepIdle
    /\ getOrderCall' = [NoGetOrder EXCEPT !.pc = "db.query", !.orderId = orderId,
                                          !.calls = getOrderCall.calls + 1]
    /\ UNCHANGED <<cacheClient, getUserCall, depCalls, notDepVars>>

\* await this.db.query('orders', { id: orderId }) settles; then
\* this.userService.getUser(order.userId)
OrdersQuerySettles(fails) ==
    /\ getOrderCall.pc = "db.query"
    /\ IF fails
       THEN getOrderCall' = [getOrderCall EXCEPT !.pc = "done", !.kind = "rejected",
                                                 !.error = DepErrors.db]
       ELSE LET found == ArrayObject(FindOrders(getOrderCall.orderId))
            IN  getOrderCall' = [getOrderCall EXCEPT !.pc = "getUser", !.order = found,
                                    !.getUserArg = GetProperty(found, "userId")]
    /\ UNCHANGED <<cacheClient, getUserCall, depCalls, notDepVars>>

\* await this.userService.getUser(...) settles; return { ...order, user }
GetUserSettles(fails, user) ==
    /\ getOrderCall.pc = "getUser"
    /\ user \in ApiUsers(getOrderCall.getUserArg)
    /\ IF fails
       THEN getOrderCall' = [getOrderCall EXCEPT !.pc = "done", !.kind = "rejected",
                                                 !.error = DepErrors.getUser]
       ELSE getOrderCall' = [getOrderCall EXCEPT !.pc = "done", !.kind = "resolved",
                   !.user = user, !.value = SpreadWithUser(getOrderCall.order, user)]
    /\ UNCHANGED <<cacheClient, getUserCall, depCalls, notDepVars>>

NextDep ==
    \/ \E useCache \in BOOLEAN : createUserService(useCache)
    \/ \E userId \in DepUserIds : getUser(userId)
    \/ \E fails \in BOOLEAN : CacheGetSettles(fails)
    \/ \E fails \in BOOLEAN, user \in AllApiUsers : ApiRequestSettles(fails, user)
    \/ \E fails \in BOOLEAN : UsersQuerySettles(fails)
    \/ \E fails \in BOOLEAN : CacheSetSettles(fails)
    \/ \E orderId \in DepOrderIds : getOrder(orderId)
    \/ \E fails \in BOOLEAN : OrdersQuerySettles(fails)
    \/ \E fails \in BOOLEAN, user \in AllApiUsers : GetUserSettles(fails, user)

(***************************************************************************)
(* Non-determinism example: RandomProvider                                 *)
(***************************************************************************)
MaxDraws == 3

Modulus == 233280
Providers == {1, 2}

\* the integer seeds the providers are given: both ends of 0..233279, the
\* seed of the tests, and values spread over the range
Seeds == {0, 1, InitialSeed, Modulus - 1} \cup {7777 * k : k \in 1..29}

\* this.seed / 233280, as a fraction
Fraction(num, den) == [num |-> num, den |-> den]

\* new RandomProvider(seed)
RandomProvider(sd) == [seed |-> sd, given |-> sd, returned |-> <<>>]

InitRandom == providers = [p \in Providers |-> RandomProvider(InitialSeed)]

SetSeedValueMutant(current, sd) == IF sd = 0 THEN current ELSE sd

\* this.seed = seed
SetSeedValue(current, sd) == sd

\* RandomProvider.setSeed(seed)
setSeed(p, sd) ==
    /\ providers' = [providers EXCEPT ![p] =
           [seed |-> SetSeedValue(providers[p].seed, sd), given |-> sd, returned |-> <<>>]]
    /\ providers'[p] # providers[p]
    /\ UNCHANGED notRandVars

\* RandomProvider.next()
next(p) ==
    /\ Len(providers[p].returned) < MaxDraws
    /\ LET sd == NextSeed(providers[p].seed)
       IN  providers' = [providers EXCEPT ![p] =
               [@ EXCEPT !.seed = sd,
                         !.returned = Append(@, Fraction(sd, Modulus))]]
    /\ UNCHANGED notRandVars

NextRand ==
    \/ \E p \in Providers, sd \in Seeds : setSeed(p, sd)
    \/ \E p \in Providers : next(p)

(***************************************************************************)
(* Complex logic example: the original OrderProcessor.processOrder. It is  *)
(* run after the refactored call has settled, on the same order, and each  *)
(* of its service calls gets the response the same call got there.         *)
(***************************************************************************)
MaxComparisons == 1

\* compared: the number of orders both versions have been run on
NoOriginalCall == [pc |-> "idle", calls |-> <<>>, result |-> Pending, compared |-> 0]

InitOriginal == originalCall = NoOriginalCall

\* a >= b
JsGe(a, b) == a.t = "number" /\ b.t = "number" /\ a.n >= b.n

\* `catch (error) { console.error(...); throw error; }`
OriginalRejects(message) ==
    originalCall' = [originalCall EXCEPT !.pc = "done",
                                         !.result = Settlement("rejected", message)]

\* the next awaited service call
OriginalAwaits(service, arg) ==
    originalCall' = [originalCall EXCEPT !.pc = service,
                                         !.calls = Append(@, Call(service, arg))]

\* whether the service call rejects: it does if it rejected in the other run
RejectedThere(service) == failedCall = service

\* the original processOrder(order): the nested conditions on the order, up
\* to `await db.collection('customers').findOne(...)`
originalProcessOrder ==
    /\ orderPc = "done"
    /\ originalCall.pc = "idle"
    /\ IF order.present /\ order.items = "some"
       THEN IF order.customer # Undefined /\ order.customer # "noId"
            THEN IF order.method # Undefined /\ order.method # "noMethod"
                 THEN OriginalAwaits("customers.findOne", order.customer)
                 ELSE OriginalRejects("Invalid payment method")
            ELSE OriginalRejects("Invalid customer")
       ELSE OriginalRejects("Invalid order")
    /\ UNCHANGED notOriginalVars

\* findOne settles; the nested conditions on the customer, up to
\* `await this.paymentService.processPayment(...)`
OriginalCustomerSettles ==
    /\ originalCall.pc = "customers.findOne"
    /\ IF RejectedThere("customers.findOne")
       THEN OriginalRejects(ServiceFailure("customers.findOne"))
       ELSE IF customer.found
            THEN IF customer.status = "active"
                 THEN IF JsGe(customer.creditLimit, order.total)
                      THEN OriginalAwaits("processPayment", customer.id)
                      ELSE OriginalRejects("Credit limit exceeded")
                 ELSE OriginalRejects("Customer account is not active")
            ELSE OriginalRejects("Customer not found")
    /\ UNCHANGED notOriginalVars

\* processPayment settles; up to `await this.inventoryService.updateInventory(...)`
OriginalPaymentSettles ==
    /\ originalCall.pc = "processPayment"
    /\ IF RejectedThere("processPayment")
       THEN OriginalRejects(ServiceFailure("processPayment"))
       ELSE IF paymentResult.success
            THEN OriginalAwaits("updateInventory", order.items)
            ELSE OriginalRejects("Payment processing failed")
    /\ UNCHANGED notOriginalVars

\* updateInventory settles; up to `await db.collection('orders').insertOne(...)`
\* or to `await this.paymentService.refundPayment(paymentResult.id)`
OriginalInventorySettles ==
    /\ originalCall.pc = "updateInventory"
    /\ IF RejectedThere("updateInventory")
       THEN OriginalRejects(ServiceFailure("updateInventory"))
       ELSE IF inventoryResult.success
            THEN OriginalAwaits("orders.insertOne",
                     calculateOrderStatus(order, paymentResult, inventoryResult))
            ELSE OriginalAwaits("refundPayment", paymentResult.id)
    /\ UNCHANGED notOriginalVars

\* refundPayment settles; `throw new Error('Inventory update failed')`
OriginalRefundSettles ==
    /\ originalCall.pc = "refundPayment"
    /\ IF RejectedThere("refundPayment")
       THEN OriginalRejects(ServiceFailure("refundPayment"))
       ELSE OriginalRejects("Inventory update failed")
    /\ UNCHANGED notOriginalVars

\* insertOne settles; up to `await this.emailService.sendOrderConfirmation(...)`
OriginalInsertSettles ==
    /\ originalCall.pc = "orders.insertOne"
    /\ IF RejectedThere("orders.insertOne")
       THEN OriginalRejects(ServiceFailure("orders.insertOne"))
       ELSE OriginalAwaits("sendOrderConfirmation", order.id)
    /\ UNCHANGED notOriginalVars

\* the three notifications, awaited one after the other
NotificationOrder == <<"sendOrderConfirmation", "notifyWarehouse", "notifyShipping">>

\* a notification call settles. It rejects if it is the one whose rejection
\* settled Promise.all in the other run, and resolves if none rejected
\* there; a call other than the first to reject there may do either.
OriginalNotificationSettles(i, fails) ==
    /\ originalCall.pc = NotificationOrder[i]
    /\ RejectedThere(NotificationOrder[i]) => fails
    /\ failedCall = "none" => ~fails
    /\ IF fails
       THEN OriginalRejects(ServiceFailure(NotificationOrder[i]))
       ELSE IF i < Len(NotificationOrder)
            THEN OriginalAwaits(NotificationOrder[i + 1], order.id)
            ELSE originalCall' = [originalCall EXCEPT !.pc = "done",
                     !.result = Settlement("resolved",
                         calculateOrderStatus(order, paymentResult, inventoryResult))]
    /\ UNCHANGED notOriginalVars

\* the comparison is over: the next order can be processed
OriginalForgotten ==
    /\ originalCall.pc = "done"
    /\ originalCall.compared < MaxComparisons
    /\ originalCall' = [NoOriginalCall EXCEPT !.compared = originalCall.compared + 1]
    /\ UNCHANGED notOriginalVars

\* processOrder(order) of the refactored processor, once the previous
\* comparison is over
RefactoredProcessOrder(o) ==
    /\ originalCall.pc = "idle"
    /\ processOrder(o)

NextBoth ==
    \/ \E o \in OrderInputs : RefactoredProcessOrder(o)
    \/ \E outcome \in CustomerOutcomes, fails \in BOOLEAN : CustomerSettles(outcome, fails)
    \/ \E outcome \in PaymentOutcomes, fails \in BOOLEAN : PaymentSettles(outcome, fails)
    \/ \E outcome \in InventoryOutcomes, fails \in BOOLEAN : InventorySettles(outcome, fails)
    \/ \E fails \in BOOLEAN : RefundSettles(fails)
    \/ \E fails \in BOOLEAN : SaveSettles(fails)
    \/ \E failed \in NotificationServices \cup {"none"} : NotificationsSettle(failed)
    \/ originalProcessOrder
    \/ OriginalCustomerSettles
    \/ OriginalPaymentSettles
    \/ OriginalInventorySettles
    \/ OriginalRefundSettles
    \/ OriginalInsertSettles
    \/ \E i \in 1..3, fails \in BOOLEAN : OriginalNotificationSettles(i, fails)
    \/ OriginalForgotten

StateStep(p) ==
    \/ \E username \in Users, password \in Passwords : LoginCall(p, username, password)
    \/ RecordActivityCall(p)
    \/ \E outcome \in {"ok"} \cup DbErrors : DbSettle(p, outcome)
    \/ LoginGotUser(p)
    \/ LoginGotPrefs(p)
    \/ LoginUpdateStateRejects(p)
    \/ LoginCatch(p)
    \/ LoginAssign(p)
    \/ LoginReturnTrue(p)
    \/ LoginFailUpdate(p)
    \/ LoginReturnFalse(p)
    \/ LoginCatchUpdate(p)
    \/ LoginRethrow(p)
    \/ RecGotState(p)
    \/ RecInserted(p)
    \/ RecAssign(p)
    \/ RecReturn(p)
    \/ RecCatchUpdate(p)
    \/ RecRethrow(p)

Init ==
    /\ InitStateManager
    /\ InitConfig
    /\ InitApiClient
    /\ InitCache
    /\ InitOrderProcessor
    /\ InitDataFetcher
    /\ InitBatch
    /\ InitDep
    /\ InitRandom
    /\ InitOriginal

\* service operations of several callers interleave at their await points
NextState == (\E p \in Procs : StateStep(p)) \/ Tick
SpecState == Init /\ [][NextState]_vars

\* one caller, which awaits each operation before it starts the next
NextLogin == StateStep(1) \/ Tick
SpecLogin == Init /\ [][NextLogin]_vars

SpecApi == Init /\ [][NextApi]_vars

SpecCache == Init /\ [][NextCache]_vars

SpecOrder == Init /\ [][NextOrder]_vars

SpecDep == Init /\ [][NextDep]_vars

SpecRand == Init /\ [][NextRand]_vars

SpecBoth == Init /\ [][NextBoth]_vars

SpecFetch == Init /\ [][NextFetch]_vars

\* a timer that has been set fires: while some processOrder call is in
\* flight, one of the pending timers eventually fires
SpecBatch ==
    /\ Init /\ [][NextBatch]_vars
    /\ WF_vars(\E i \in 1..MaxOrders : TimerFires(i))

SpecConfig == Init /\ [][NextConfig]_vars

(***************************************************************************)
(* Properties                                                              *)
(***************************************************************************)

\* C1: updates through updateState / updateErrorState are atomic: once all
\* operations have settled, the state and the error state are what the
\* update functions give when applied one after another, each to the result
\* of the one written before it (no update is lost).
AtomicStateUpdates ==
    (\A p \in Procs : Settled(p)) =>
        /\ state = serialState
        /\ errorState = serialError

\* C2: request makes its attempts one after another, stops at the first
\* attempt whose response is ok and resolves with that response's parsed
\* body, never makes more than api.maxRetries attempts, rejects with the
\* error of the last attempt when all api.maxRetries attempts failed, and
\* never resolves without a successful attempt.
RequestContract ==
    LET n == Len(attempts)
        maxRetries == apiConfig.maxRetries
    IN  /\ maxRetries.t = "number" => n <= maxRetries.n
        /\ \A i \in 1..(n - 1) : ~(attempts[i].responded /\ attempts[i].ok)
        /\ apiResult.kind = "resolved" =>
              /\ n >= 1
              /\ attempts[n].responded /\ attempts[n].ok
              /\ apiResult.value = attempts[n].value
        /\ apiResult.kind = "rejected" =>
              /\ maxRetries.t = "number" /\ n = maxRetries.n
              /\ apiResult.value = attempts[n].value

\* the payment succeeded and the inventory update reported failure
InventoryFailed ==
    /\ paymentResult.settled /\ paymentResult.success
    /\ inventoryResult.settled /\ ~inventoryResult.success

\* the refund was requested for that payment, nothing was inserted or sent
RefundedNothingSent ==
    /\ \E i \in 1..Len(serviceCalls) :
          serviceCalls[i] = Call("refundPayment", paymentResult.id)
    /\ ~Called("orders.insertOne")
    /\ \A service \in NotificationServices : ~Called(service)
    /\ orderResult.kind # "resolved"

\* C3 (as stated): when the payment succeeded and the inventory update
\* reports failure, refundPayment is called with the id of that payment, no
\* order is inserted, no confirmation email, warehouse or shipping
\* notification is sent, and the call rejects with 'Inventory update failed'.
InventoryFailureRefunds ==
    InventoryFailed =>
        /\ RefundedNothingSent
        /\ orderPc = "done" => orderResult = Settlement("rejected", "Inventory update failed")

\* C3 (as amended): ... and the call rejects with 'Inventory update failed'
\* when the refund call resolves, and with the error of the refund call when
\* that call itself rejects.
InventoryFailureRefundsOrRefundError ==
    InventoryFailed =>
        /\ RefundedNothingSent
        /\ orderPc = "done" =>
              /\ orderResult.kind = "rejected"
              /\ failedCall = "none" => orderResult.value = "Inventory update failed"
              /\ failedCall # "none" =>
                    /\ failedCall = "refundPayment"
                    /\ orderResult.value = "refundPayment failed"

\* the inventory update failed after the second kind of payment and the
\* refund went through
InventoryFailureWitness ==
    /\ InventoryFailed
    /\ orderPc = "done"
    /\ orderResult.value = "Inventory update failed"
    /\ paymentResult.id = "pay2"

CheckMessages ==
    { "Invalid order", "Invalid customer", "Invalid payment method",
      "Customer not found", "Customer account is not active",
      "Credit limit exceeded", "Payment processing failed" }

OrderChecksPass ==
    /\ order.present /\ order.items = "some"
    /\ order.customer = "c1"
    /\ order.method \in {"credit_card", "paypal"}

CustomerChecksPass ==
    /\ customer.settled /\ customer.found
    /\ customer.status = "active"
    /\ ~(/\ customer.creditLimit.t = "number" /\ order.total.t = "number"
         /\ customer.creditLimit.n < order.total.n)

\* the message of the first check that fails on what is known so far
FirstFailedCheck ==
    IF ~order.present \/ order.items # "some" THEN "Invalid order"
    ELSE IF order.customer # "c1" THEN "Invalid customer"
    ELSE IF order.method \notin {"credit_card", "paypal"} THEN "Invalid payment method"
    ELSE IF ~customer.settled THEN "none"
    ELSE IF ~customer.found THEN "Customer not found"
    ELSE IF customer.status # "active" THEN "Customer account is not active"
    ELSE IF ~CustomerChecksPass THEN "Credit limit exceeded"
    ELSE IF ~paymentResult.settled THEN "none"
    ELSE IF ~paymentResult.success THEN "Payment processing failed"
    ELSE "none"

\* C4: processOrder rejects with the message of the first check that fails,
\* in the order Invalid order, Invalid customer, Invalid payment method,
\* Customer not found, Customer account is not active, Credit limit exceeded
\* (limit strictly below the total), Payment processing failed;
\* processPayment is called only if the order and the fetched customer
\* passed every check; after 'Payment processing failed' neither the
\* inventory is updated nor a refund requested.
ChecksInOrder ==
    /\ orderPc = "done" =>
          /\ FirstFailedCheck # "none" =>
                orderResult = Settlement("rejected", FirstFailedCheck)
          /\ orderResult.value \in CheckMessages =>
                orderResult = Settlement("rejected", FirstFailedCheck)
    /\ Called("processPayment") => OrderChecksPass /\ CustomerChecksPass
    /\ orderResult.value = "Payment processing failed" =>
          ~Called("updateInventory") /\ ~Called("refundPayment")

\* the credit limit equals the total, the payment is attempted and refused
ChecksInOrderWitness ==
    /\ orderPc = "done"
    /\ orderResult.value = "Payment processing failed"
    /\ customer.creditLimit = order.total

\* C5: once a fetchData(userId) call has settled (from the cache, from the
\* API, or rejected), userId is not reported by getActiveOperations(),
\* provided no other fetchData call for the same userId is in flight.
SettledNotActive ==
    \A c \in FetchCalls :
        (/\ fetches[c].pc = "done"
         /\ ~\E d \in FetchCalls : InFlight(d) /\ fetches[d].userId = fetches[c].userId)
            => fetches[c].userId \notin getActiveOperations

\* a call for one user was rejected while a call for the other user is in flight
SettledNotActiveWitness ==
    /\ fetches[1].pc = "done" /\ fetches[1].result.kind = "rejected"
    /\ InFlight(2) /\ fetches[2].userId # fetches[1].userId
    /\ getActiveOperations = {fetches[2].userId}

\* the chunk (counted from 0) of the order at position i of the input list
ChunkOf(i) == (i - 1) \div batch.limit

\* never more than `limit` processOrder calls in flight, all of one chunk,
\* and no order of a later chunk started before they settled
ConcurrencyLimited ==
    /\ Cardinality(inFlight) <= batch.limit
    /\ \A i \in inFlight, j \in inFlight : ChunkOf(i) = ChunkOf(j)
    /\ \A i \in inFlight, j \in 1..Len(batch.orders) :
          ChunkOf(j) > ChunkOf(i) => j \notin started

\* a settled call has resolved with the input orders in input order, or was
\* rejected by the time check at the start of a chunk, no later chunk started
ResultOrBusinessHours ==
    batch.pc = "done" =>
        \/ batchResult = Settlement("resolved", batch.orders)
        \/ /\ batchResult = Settlement("rejected",
                  <<"Orders can only be processed during business hours">>)
           /\ OutsideBusinessHours(batch.checkedAt)
           /\ started = {j \in 1..Len(batch.orders) : ChunkOf(j) < batch.chunk}

\* C6 (as stated): processOrders / processQueue end with exactly one result
\* per input order, in the order of the input list.
OneResultPerOrder ==
    batch.pc = "done" => batchResult = Settlement("resolved", batch.orders)

\* C6 (as amended): processOrders / processQueue terminate, for every list
\* and every limit >= 1; they resolve with exactly one result per input
\* order in the order of the input list when every chunk is started within
\* business hours (9 <= hour <= 17), and reject with 'Orders can only be
\* processed during business hours', starting no later chunk, when a chunk
\* is started outside them; at no time are more than `limit` processOrder
\* calls in flight, and an order of a later chunk is started only after
\* every order of the previous chunk has settled.
BatchContractInBusinessHours ==
    /\ []ConcurrencyLimited
    /\ []ResultOrBusinessHours
    /\ (batch.pc = "running") ~> (batch.pc = "done")

\* the call resolved three orders, processed in chunks of two, in
\* input order
BatchWitness ==
    /\ batch.pc = "done"
    /\ batch.limit = 2
    /\ batch.calls = 1
    /\ batchResult = Settlement("resolved", <<"5", "3", "8">>)

\* what a get returns, and when an entry is absent from the store
CacheGetResult ==
    /\ got.op = "get" =>
          LET last == lastSet[got.key]
              T == cacheConfig.ttl.n
          IN  IF ~last.done THEN got.value = Null
              ELSE IF now <= last.at + T * 1000 THEN got.value = last.value
              ELSE got.value = Null /\ ~store[got.key].present
    /\ \A key \in CacheKeys :
          ~store[key].present =>
              \/ ~lastSet[key].done
              \/ now > lastSet[key].at + cacheConfig.ttl.n * 1000

\* C7: with cache.ttl = T, get(key) returns the value of the last
\* set(key, value) while the time is not later than the time of that set
\* plus T*1000 ms and null at any later time; the get that finds an expired
\* entry removes it, and the entry stays absent until the next set of that
\* key; a key that was never set reads null.
CacheTtlContract ==
    /\ []CacheGetResult
    /\ [][\A key \in CacheKeys :
            (~store[key].present /\ ~(got'.op = "set" /\ got'.key = key))
                => ~store'[key].present]_vars

\* a get at the very last moment of an entry's life returns the value, while
\* the entry of another key has been removed by a get after its expiry
CacheTtlWitness ==
    /\ got.op = "get" /\ got.value # Null
    /\ now = lastSet[got.key].at + cacheConfig.ttl.n * 1000
    /\ \E key \in CacheKeys : lastSet[key].done /\ ~store[key].present

\* C8: a Config cannot be modified after creation: no operation (with, an
\* assignment to config.values[key], an assignment to a field of a section
\* obtained from get) changes what get returns on an existing Config.
ConfigImmutable ==
    [][\A c \in 1..Len(configs), key \in Keys : get(c, key)' = get(c, key)]_vars

\* C9: every Config that exists satisfies every validator of its schema and
\* has api.timeout > 0, api.maxRetries >= 0, cache.ttl > 0 and a valid
\* logger level; a constructor call whose candidate fails a validator throws
\* 'Configuration validation failed' naming every failing key and produces
\* no Config.
EveryConfigValid ==
    /\ \A c \in 1..Len(configs) :
          /\ \A key \in Keys : Validator(key, get(c, key)) = ""
          /\ JsGt(get(c, "api").timeout, JsNum(0))
          /\ JsLe(JsNum(0), get(c, "api").maxRetries)
          /\ JsGt(get(c, "cache").ttl, JsNum(0))
          /\ get(c, "logger").level.s \in ValidLevels
    /\ lastOp \in {"createConfig", "with"} =>
          LET failing == {key \in Keys : Validator(key, candidate[key]) # ""}
          IN  IF failing = {}
              THEN lastThrown = NoError
              ELSE /\ lastThrown.prefix = "Configuration validation failed"
                   /\ {lastThrown.errors[i].key : i \in 1..Len(lastThrown.errors)} = failing

\* C10: login has exactly three outcomes, decided by the db lookups: found
\* -> resolves true, the user state is that user with the stored preferences
\* (or {}) and a last-activity time, the error state is untouched; not found
\* -> resolves false, error count + 1, user state untouched; a lookup throws
\* -> rejects with that error, error count + 1, user state untouched.
LoginOutcomes ==
    \A p \in Procs :
        (procs[p].op = "login" /\ procs[p].pc = "done") =>
            LET found == FindUser(procs[p].username, procs[p].password)
                me == procs[p]
            IN  IF me.threw
                THEN /\ me.result = me.error
                     /\ me.error \in DbErrors
                     /\ errorState.count = me.preError.count + 1
                     /\ state = me.preState
                ELSE IF found # Null
                THEN /\ me.result = "true"
                     /\ state.user = found
                     /\ state.preferences =
                            (IF DbPreferences[found] = Null THEN EmptyPrefs
                             ELSE DbPreferences[found])
                     /\ state.lastActivity # NullTime
                     /\ errorState = me.preError
                ELSE /\ me.result = "false"
                     /\ errorState.count = me.preError.count + 1
                     /\ state = me.preState

\* a login succeeds after an earlier one failed
LoginOutcomesWitness ==
    /\ procs[1].op = "login" /\ procs[1].pc = "done"
    /\ procs[1].result = "true"
    /\ procs[1].preError.count = 1
    /\ state.user = "bob"

\* C14: getActiveOperations() contains userId at every moment at which at
\* least one fetchData(userId) call has started and not yet settled, also
\* when several calls for the same userId overlap and one settles first.
ActiveWhileInFlight ==
    \A c \in FetchCalls :
        InFlight(c) => fetches[c].userId \in getActiveOperations

\* C11: getOrder(orderId) resolves with the fields of the order whose id is
\* orderId (id, userId, total) together with a `user` field holding the
\* result of userService.getUser called with that order's userId, where the
\* order is what db.query('orders', {id: orderId}) finds.
GetOrderContract ==
    (/\ getOrderCall.pc = "done"
     /\ getOrderCall.kind = "resolved"
     /\ FindOrders(getOrderCall.orderId) # <<>>) =>
        LET row == FindOrders(getOrderCall.orderId)[1]
            result == getOrderCall.value
        IN  /\ getOrderCall.getUserArg = row.userId
            /\ {"id", "userId", "total", "user"} \subseteq DOMAIN result
            /\ result["id"] = row.id
            /\ result["userId"] = row.userId
            /\ result["total"] = row.total
            /\ result["user"] = getOrderCall.user

\* the calls of the current getUser call to one of the injected dependencies
CallsTo(name) == SelectSeq(depCalls, LAMBDA call : call.name = name)

\* C13: when the API request, the database query or the cache write fails,
\* errorHandler.handle is called exactly once with that error and getUser
\* rejects with the same error; when the API request or the database query
\* failed, nothing is written to the cache; when caching is enabled and the
\* cache holds an entry, the parsed entry is returned without any call to
\* the API, the database or cache.set.
GetUserErrorHandling ==
    getUserCall.pc = "done" =>
        LET me == getUserCall
        IN  /\ me.failed \in {"api", "db", "cacheSet"} =>
                  /\ CallsTo("errorHandler.handle") =
                         <<Call("errorHandler.handle", DepErrors[me.failed])>>
                  /\ me.result = DepSettlement("rejected", NoUser, DepErrors[me.failed])
            /\ me.failed \in {"api", "db"} => CallsTo("cache.set") = <<>>
            /\ (me.useCache /\ me.failed # "cacheGet" /\ me.cached.present) =>
                  /\ me.result = DepSettlement("resolved", JSONparse(me.cached.value), "")
                  /\ CallsTo("api.request") = <<>>
                  /\ CallsTo("db.query") = <<>>
                  /\ CallsTo("cache.set") = <<>>

\* the cache write of a second call failed, after a first call had cached
\* JSON null, which a third call could read back
GetUserErrorWitness ==
    /\ getUserCall.pc = "done"
    /\ getUserCall.failed = "cacheSet"
    /\ getUserCall.useCache
    /\ \E key \in DepCacheKeys : cacheClient[key] = CacheEntry(TRUE, "null")

CallsMade(calls) == {calls[i] : i \in 1..Len(calls)}

\* C15: the refactored processOrder is behaviour-preserving with respect to
\* the original: for every order and every combination of responses and
\* failures of the services, both versions end with the same result or the
\* same rejection message and have made the same calls on those services.
RefactoringPreservesBehaviour ==
    originalCall.pc = "done" =>
        /\ originalCall.result = orderResult
        /\ CallsMade(originalCall.calls) = CallsMade(serviceCalls)

====
